---- MODULE Spec2Model ----
(***************************************************************************)
(* Model of ggshield's git-diff-to-scannable-unit pipeline                 *)
(* (src/ggshield/scan/scannable.py): the raw patch header parser, the      *)
(* patch body splitter (Commit.get_files), the Files collection and the    *)
(* chunked concurrent scan (Files.scan).                                   *)
(*                                                                         *)
(* Text is modelled as a sequence of characters, each a one-character      *)
(* string, except for the two control characters and the two multi-        *)
(* character lexemes the code searches for, which are single tokens:       *)
(*   NUL  the "\0" byte,  NL  the "\n" byte,                                *)
(*   DIFF the text "diff " and HUNK the text "@@".                         *)
(***************************************************************************)
EXTENDS Integers, Sequences, FiniteSets, TLC

VARIABLES
    \* ---- _parse_patch_header_line applied to one line
    line,       \* the text of the line handed to the parser
    lineRec,    \* the file record the line was written from
    lineRes,    \* the parser's outcome, kind "none" before the call
    \* ---- _parse_patch_header, a generator over one header
    header,     \* the raw header text
    hdrInfo,    \* the commit-info segment the header starts with
    hdrRecs,    \* the file records of the header, in order
    hdrLines,   \* the lines still to parse (after the generator started)
    hdrOut,     \* the (filename, filemode) pairs yielded so far
    hdrPc,      \* "init", "iter", "done" or "error"
    \* ---- Commit.get_files, a generator over one commit's patch
    patch,      \* the raw patch text (Commit.patch)
    cmInfo,     \* the commit-info segment; empty for git diff --cached
    cmFiles,    \* the changed files the patch was written from, in order
    cmShape,    \* "paired" when the patch has a record and a chunk per
                \* file, "short body" when the chunk of the last file is
                \* missing, "short header" when its record is missing
    cmExcl,     \* exclusion_regexes, as the set of names they match
    cmLines,    \* header lines the header generator has still to parse
    cmDiffs,    \* body chunks the zip has still to take
    cmSeen,     \* one entry per (pair, chunk) the loop body ran on
    cmOut,      \* the CommitFile units yielded so far
    cmPc,       \* "init", "iter", "done" or "error" (PatchParseError)
    cmMap,      \* Commit._files as the files property leaves it
    \* ---- a Files collection
    fsList,     \* the list the constructor was last called with
    fsFiles,    \* Files._files: the units in insertion order of their keys
    fsPc,       \* the last call: "built", "filtered", "relative", or
                \* "raised" when it raised
    \* ---- one call of Files.scan
    scUnits,    \* the units of the collection, in order
    scChunks,   \* chunks: the payload lists, once built
    scSubmitted,\* how many chunks were handed to the executor
    scFutures,  \* per chunk: the outcome of its request, kind "pending"
                \* until the worker has finished
    scCollected,\* the chunks the as_completed loop has handled
    scResults,  \* results
    scErrors,   \* errors
    scTrace,    \* the calls made on the cache, the executor and the
                \* progress callback, in order
    scReported, \* what handle_scan_chunk_error was called with
    scPc,       \* "start", "submit", "collect" or "done"
    \* ---- File.scan_dict applied to one unit
    sdUnit,     \* the unit (filename, document, filemode)
    sdOut,      \* the payload dict, once built
    sdPc,       \* "init" or "done"
    \* ---- one pre-push IaC diff scan (scan_pre_push_cmd) and its JSON output
    dfRemote,   \* remote_commit as collect_commits_refs returned it
    dfBase,     \* the findings of a scan at the commit dfRemote names
    dfCurrent,  \* the findings of a scan of the current state
    dfPrevRef,  \* the previous_ref handed to iac_scan_diff
    dfResult,   \* the result of the diff scan, kind "none" when it has none
    dfOut,      \* the dict create_diff_scan_dict returned
    dfPc,       \* "init", "scan", "display" or "done"
    \* ---- the cached HMSL token (verticals/hmsl/utils.py)
    tkDisk,     \* the content of the file TOKEN_PATH, Absent when there is none
    tkLast      \* the last call: its inputs, what it met and its outcome

lineVars == <<line, lineRec, lineRes>>
hdrVars == <<header, hdrInfo, hdrRecs, hdrLines, hdrOut, hdrPc>>
cmVars == <<patch, cmInfo, cmFiles, cmShape, cmExcl, cmLines, cmDiffs, cmSeen, cmOut, cmPc, cmMap>>
fsVars == <<fsList, fsFiles, fsPc>>
scVars == <<scUnits, scChunks, scSubmitted, scFutures, scCollected,
           scResults, scErrors, scTrace, scReported, scPc>>
sdVars == <<sdUnit, sdOut, sdPc>>
dfVars == <<dfRemote, dfBase, dfCurrent, dfPrevRef, dfResult, dfOut, dfPc>>
tkVars == <<tkDisk, tkLast>>
vars == <<lineVars, hdrVars, cmVars, fsVars, scVars, sdVars, dfVars, tkVars>>

\* what an operation of one part leaves alone
notLine == <<hdrVars, cmVars, fsVars, scVars, sdVars, dfVars, tkVars>>
notHdr == <<lineVars, cmVars, fsVars, scVars, sdVars, dfVars, tkVars>>
notCm == <<lineVars, hdrVars, fsVars, scVars, sdVars, dfVars, tkVars>>
notFs == <<lineVars, hdrVars, cmVars, scVars, sdVars, dfVars, tkVars>>
notSc == <<lineVars, hdrVars, cmVars, fsVars, sdVars, dfVars, tkVars>>
notSd == <<lineVars, hdrVars, cmVars, fsVars, scVars, dfVars, tkVars>>
notDf == <<lineVars, hdrVars, cmVars, fsVars, scVars, sdVars, tkVars>>
notTk == <<lineVars, hdrVars, cmVars, fsVars, scVars, sdVars, dfVars>>

----------------------------------------------------------------------------
(* Bounds of the model *)

\* most parents of a commit, so most status letters of one record
MaxParents == 2
\* most file records in a header
MaxRecords == 2
\* most changed files in a commit's patch
MaxFiles == 2
\* most units in the list a Files collection is built from
MaxUnits == 3
\* most units in a collection that is scanned
MaxScanUnits == 5
\* longest filename of a unit handed to File.scan_dict
MaxNameLen == 258

----------------------------------------------------------------------------
(* Characters and the string functions the parser uses *)

NUL == "NUL"
NL == "NL"
SP == " "
COLON == ":"
Digits == {"0", "1", "2", "3", "4", "5", "6", "7", "8", "9"}

SetMax(S) == CHOOSE x \in S : \A y \in S : y <= x
SetMin(S) == CHOOSE x \in S : \A y \in S : x <= y

\* str.rstrip(chars)
RStrip(s, chars) ==
    LET keep == {i \in 1..Len(s) : s[i] \notin chars}
    IN  IF keep = {} THEN <<>> ELSE SubSeq(s, 1, SetMax(keep))

\* str.split(sep) for a one-character separator: empty fields are kept
RECURSIVE SplitOn(_, _)
SplitOn(s, sep) ==
    LET at == {i \in 1..Len(s) : s[i] = sep}
    IN  IF at = {} THEN <<s>>
        ELSE LET i == SetMin(at)
             IN  <<SubSeq(s, 1, i - 1)>> \o SplitOn(SubSeq(s, i + 1, Len(s)), sep)

\* str.rsplit(" ", 1)[-1]: the text after the last space, or the whole text
LastField(s) ==
    LET at == {i \in 1..Len(s) : s[i] = SP}
    IN  IF at = {} THEN s ELSE SubSeq(s, SetMax(at) + 1, Len(s))

\* _RX_HEADER_LINE_SEPARATOR.split(header): the separator is a newline or a
\* NUL followed by a colon; both characters are consumed
RECURSIVE RxHeaderLineSplit(_)
RxHeaderLineSplit(s) ==
    LET at == {i \in 1..(Len(s) - 1) : s[i] \in {NL, NUL} /\ s[i + 1] = COLON}
    IN  IF at = {} THEN <<s>>
        ELSE LET i == SetMin(at)
             IN  <<SubSeq(s, 1, i - 1)>> \o RxHeaderLineSplit(SubSeq(s, i + 2, Len(s)))

Chars(s) == {s[i] : i \in 1..Len(s)}

----------------------------------------------------------------------------
(* _parse_patch_header_line *)

\* The if/elif chain over the status letters. A mutant that tests D first.
FilemodeOfDeleteFirst(status) ==
    IF "D" \in Chars(status) THEN "DELETE"
    ELSE IF "M" \in Chars(status) THEN "MODIFY"
    ELSE IF "C" \in Chars(status) THEN "NEW"
    ELSE IF "A" \in Chars(status) THEN "NEW"
    ELSE IF "T" \in Chars(status) THEN "NEW"
    ELSE IF "R" \in Chars(status) THEN "RENAME"
    ELSE "unknown"

\* A mutant that rejects a status holding any letter it does not know.
FilemodeOfStrict(status) ==
    IF Chars(status) \ {"M", "C", "A", "T", "R", "D"} # {} THEN "unknown"
    ELSE IF "M" \in Chars(status) THEN "MODIFY"
    ELSE IF "C" \in Chars(status) THEN "NEW"
    ELSE IF "A" \in Chars(status) THEN "NEW"
    ELSE IF "T" \in Chars(status) THEN "NEW"
    ELSE IF "R" \in Chars(status) THEN "RENAME"
    ELSE IF "D" \in Chars(status) THEN "DELETE"
    ELSE "unknown"

FilemodeOf(status) ==
    IF "M" \in Chars(status) THEN "MODIFY"
    ELSE IF "C" \in Chars(status) THEN "NEW"
    ELSE IF "A" \in Chars(status) THEN "NEW"
    ELSE IF "T" \in Chars(status) THEN "NEW"
    ELSE IF "R" \in Chars(status) THEN "RENAME"
    ELSE IF "D" \in Chars(status) THEN "DELETE"
    ELSE "unknown"

\* prefix.rsplit(" ", 1)[-1].rstrip("0123456789")
StatusOf(prefix) == RStrip(LastField(prefix), Digits)

\* The whole function. The outcome is a pair (kind "ok"), the ValueError the
\* function raises itself (kind "error", with the line and the status its
\* message holds), or the ValueError of the unpacking assignment when the
\* line has fewer than two fields (kind "unpack").
ParsePatchHeaderLine(ln) ==
    LET fields == SplitOn(RStrip(ln, {NUL}), NUL)
    IN  IF Len(fields) < 2 THEN [kind |-> "unpack"]
        ELSE LET prefix == fields[1]
                 name == IF Len(fields) > 2 THEN fields[3] ELSE fields[2]
                 status == StatusOf(prefix)
                 mode == FilemodeOf(status)
             IN  IF mode = "unknown"
                 THEN [kind |-> "error", line |-> ln, status |-> status]
                 ELSE [kind |-> "ok", name |-> name, mode |-> mode]

----------------------------------------------------------------------------
(* The raw header text git writes (git show / git diff --raw -z --patch)   *)

RECURSIVE Repeat(_, _)
Repeat(c, n) == IF n = 0 THEN <<>> ELSE <<c>> \o Repeat(c, n - 1)

\* One file record: one colon, one mode and one sha per parent (a single
\* character stands for each), the new mode and sha, the status letters and
\* the score, then the NUL-terminated name and, for a rename or a copy, the
\* NUL-terminated new name. newname = <<>> stands for "no new name".
RecordText(r) ==
    Repeat(COLON, Len(r.status))
        \o Repeat("6", Len(r.status)) \o <<SP, "6", SP>>
        \o Repeat("a", Len(r.status)) \o <<SP, "b", SP>>
        \o r.status \o r.score \o <<NUL>> \o r.name \o <<NUL>>
        \o (IF r.newname = <<>> THEN <<>> ELSE r.newname \o <<NUL>>)

RECURSIVE RecordsText(_)
RecordsText(recs) ==
    IF recs = <<>> THEN <<>> ELSE RecordText(Head(recs)) \o RecordsText(Tail(recs))

\* The name the record's pair must carry: the new name when there is one.
RecordName(r) == IF r.newname = <<>> THEN r.name ELSE r.newname

StatusLetters == {"M", "C", "A", "T", "R", "D", "X"}
KnownLetters == {"M", "C", "A", "T", "R", "D"}

StatusStrings == UNION {[1..n -> StatusLetters] : n \in 1..MaxParents}

LineRecords ==
    [status : StatusStrings, score : {<<>>, <<"7", "5">>},
     name : {<<"f">>}, newname : {<<>>, <<"g">>}]

----------------------------------------------------------------------------
(* Specification of one call of _parse_patch_header_line *)

SdIdle ==
    /\ sdUnit = <<>>
    /\ sdOut = <<>>
    /\ sdPc = "off"

DfIdle ==
    /\ dfRemote = <<>>
    /\ dfBase = {}
    /\ dfCurrent = {}
    /\ dfPrevRef = <<>>
    /\ dfResult = [kind |-> "off"]
    /\ dfOut = <<>>
    /\ dfPc = "off"

TkIdle ==
    /\ tkDisk = <<"off">>
    /\ tkLast = [op |-> "off"]

HdrIdle ==
    /\ header = <<>>
    /\ hdrInfo = <<>>
    /\ hdrRecs = <<>>
    /\ hdrLines = <<>>
    /\ hdrOut = <<>>
    /\ hdrPc = "off"

CmIdle ==
    /\ patch = <<>>
    /\ cmInfo = <<>>
    /\ cmFiles = <<>>
    /\ cmShape = "off"
    /\ cmExcl = {}
    /\ cmLines = <<>>
    /\ cmDiffs = <<>>
    /\ cmSeen = <<>>
    /\ cmOut = <<>>
    /\ cmPc = "off"
    /\ cmMap = <<>>

FsIdle ==
    /\ fsList = <<>>
    /\ fsFiles = <<>>
    /\ fsPc = "off"

ScIdle ==
    /\ scUnits = <<>>
    /\ scChunks = <<>>
    /\ scSubmitted = 0
    /\ scFutures = <<>>
    /\ scCollected = {}
    /\ scResults = <<>>
    /\ scErrors = <<>>
    /\ scTrace = <<>>
    /\ scReported = <<>>
    /\ scPc = "off"

LineIdle ==
    /\ line = <<>>
    /\ lineRec = [status |-> <<>>, score |-> <<>>, name |-> <<>>, newname |-> <<>>]
    /\ lineRes = [kind |-> "off"]

InitLine ==
    /\ lineRec \in LineRecords
    /\ line = RecordText(lineRec)
    /\ lineRes = [kind |-> "none"]
    /\ HdrIdle /\ CmIdle /\ FsIdle /\ ScIdle /\ SdIdle /\ DfIdle /\ TkIdle

ParseLine ==
    /\ lineRes.kind = "none"
    /\ lineRes' = ParsePatchHeaderLine(line)
    /\ UNCHANGED <<line, lineRec, notLine>>

NextLine == ParseLine

SpecLine == InitLine /\ [][NextLine]_vars

\* C2: the filemode of a record follows the fixed precedence M, C, A, T, R, D
\* over the set of its status letters, whatever their order and whatever
\* score follows them; a status holding both M and D gives MODIFY.
C2_Precedence ==
    lineRes.kind \notin {"none", "off"} =>
        LET L == Chars(lineRec.status)
            IsMode(m) == lineRes.kind = "ok" /\ lineRes.mode = m
        IN  /\ "M" \in L => IsMode("MODIFY")
            /\ ("C" \in L /\ "M" \notin L) => IsMode("NEW")
            /\ ("A" \in L /\ L \cap {"M", "C"} = {}) => IsMode("NEW")
            /\ ("T" \in L /\ L \cap {"M", "C", "A"} = {}) => IsMode("NEW")
            /\ ("R" \in L /\ L \cap {"M", "C", "A", "T"} = {}) => IsMode("RENAME")
            /\ ("D" \in L /\ L \cap {"M", "C", "A", "T", "R"} = {}) => IsMode("DELETE")
            /\ ({"M", "D"} \subseteq L) => IsMode("MODIFY")

\* A merge record whose first parent deleted the file and whose second
\* modified it has been parsed as MODIFY.
C2_Witness ==
    /\ lineRec.status = <<"D", "M">>
    /\ lineRes.kind = "ok"
    /\ lineRes.mode = "MODIFY"

\* C3 as stated: a record whose status holds any letter other than
\* M, C, A, T, R, D fails to parse, the error naming the line and the status,
\* and gives no pair.
C3_AnyUnknownLetterFails ==
    (lineRes.kind \notin {"none", "off"}
        /\ Chars(lineRec.status) \ KnownLetters # {})
    => (lineRes.kind = "error"
        /\ lineRes.line = line /\ lineRes.status = lineRec.status)

\* C3 as amended: a record whose status holds none of the letters
\* M, C, A, T, R, D fails to parse, the error naming the line and the
\* status (score stripped), and gives no pair; a record whose status holds
\* one of these letters gives a pair even when another letter is unknown.
C3_NoKnownLetterFails ==
    lineRes.kind \notin {"none", "off"} =>
        /\ Chars(lineRec.status) \cap KnownLetters = {}
            => (lineRes.kind = "error"
                /\ lineRes.line = line /\ lineRes.status = lineRec.status)
        /\ Chars(lineRec.status) \cap KnownLetters # {} => lineRes.kind = "ok"

\* A record of status X with a score has failed to parse, and a merge record
\* of status MX would be the other case.
C3_Witness ==
    /\ lineRec.status = <<"X">>
    /\ lineRec.score # <<>>
    /\ lineRes.kind = "error"
    /\ lineRes.status = <<"X">>

----------------------------------------------------------------------------
(* Specification of _parse_patch_header, a generator over one header *)

\* The text before the first record: nothing (git diff --cached writes no
\* commit information), or the commit information and message git show
\* writes, whose message lines are indented.
CommitInfos ==
    { <<>>,
      <<"c", NL, NL>>,
      <<"c", NL, SP, COLON, "m", NL, NL>> }

HeaderRecords ==
    [status : {<<"M">>, <<"A">>, <<"D">>, <<"M", "D">>, <<"X">>},
     score : {<<>>}, name : {<<"f">>, <<"g">>}, newname : {<<>>}]
    \cup
    {[status |-> <<"R">>, score |-> <<"9", "0">>,
      name |-> <<"f">>, newname |-> <<"g">>]}

RecordLists(S, max) == UNION {[1..n -> S] : n \in 0..max}

HeaderText(info, recs) == info \o RecordsText(recs)

InitHeader ==
    /\ hdrInfo \in CommitInfos
    /\ hdrRecs \in RecordLists(HeaderRecords, MaxRecords)
    /\ header = HeaderText(hdrInfo, hdrRecs)
    /\ hdrLines = <<>>
    /\ hdrOut = <<>>
    /\ hdrPc = "init"
    /\ LineIdle /\ CmIdle /\ FsIdle /\ ScIdle /\ SdIdle /\ DfIdle /\ TkIdle

\* The lines the generator iterates over: split()[1:]
HeaderLines(h) == Tail(RxHeaderLineSplit(h))

\* One next() of the generator: the first one splits the header; each one
\* parses the next line with a colon put back in front, and yields the pair
\* or lets the ValueError out; with no line left the generator ends.
ParsePatchHeaderNext ==
    /\ hdrPc \in {"init", "iter"}
    /\ LET lines == IF hdrPc = "init" THEN HeaderLines(header) ELSE hdrLines
       IN  IF lines = <<>>
           THEN /\ hdrPc' = "done"
                /\ UNCHANGED <<hdrLines, hdrOut>>
           ELSE LET res == ParsePatchHeaderLine(<<COLON>> \o Head(lines))
                IN  /\ hdrLines' = Tail(lines)
                    /\ IF res.kind = "ok"
                       THEN /\ hdrOut' = Append(hdrOut, <<res.name, res.mode>>)
                            /\ hdrPc' = "iter"
                       ELSE /\ hdrOut' = hdrOut
                            /\ hdrPc' = "error"
    /\ UNCHANGED <<header, hdrInfo, hdrRecs, notHdr>>

NextHeader == ParsePatchHeaderNext

SpecHeader == InitHeader /\ [][NextHeader]_vars

AllRecognized(recs) ==
    \A i \in 1..Len(recs) : Chars(recs[i].status) \cap KnownLetters # {}

\* C1: once the generator has ended, a header of N records with recognized
\* statuses has given exactly N pairs, the i-th pair holding the name of the
\* i-th record; the commit-info segment gives no pair.
C1_OnePairPerRecord ==
    (hdrPc = "done" /\ AllRecognized(hdrRecs)) =>
        /\ Len(hdrOut) = Len(hdrRecs)
        /\ \A i \in 1..Len(hdrRecs) : hdrOut[i][1] = RecordName(hdrRecs[i])

----------------------------------------------------------------------------
(* Commit.get_files: the patch body splitter *)

DIFF == "diff "
HUNK == "@@"

\* MAX_FILE_SIZE of ggshield.core.constants (1 MiB there), scaled down so
\* that documents around 90% of it fit the model.
MAX_FILE_SIZE == 10

\* The number of bytes of one character in UTF-8
Utf8Width(c) ==
    CASE c = DIFF -> 5
      [] c = HUNK -> 2
      [] c = "e'" -> 2
      [] c = "EUR" -> 3
      [] OTHER -> 1

\* A mutant that counts characters, as len(document) would
RECURSIVE CharLen(_)
CharLen(s) == IF s = <<>> THEN 0 ELSE 1 + CharLen(Tail(s))

\* len(document.encode("utf-8"))
RECURSIVE Utf8Len(_)
Utf8Len(s) == IF s = <<>> THEN 0 ELSE Utf8Width(Head(s)) + Utf8Len(Tail(s))

\* A mutant that compares with the whole of MAX_FILE_SIZE
TooLargeNoHeadroom(size) == size > MAX_FILE_SIZE

\* file_size > MAX_FILE_SIZE * 0.90
TooLarge(size) == size * 10 > MAX_FILE_SIZE * 9

\* patch.split("\0diff ", 1)
SplitPatch(p) ==
    LET at == {i \in 1..(Len(p) - 1) : p[i] = NUL /\ p[i + 1] = DIFF}
    IN  IF at = {} THEN <<p>>
        ELSE LET i == SetMin(at)
             IN  <<SubSeq(p, 1, i - 1), SubSeq(p, i + 2, Len(p))>>

\* The pieces of s from index `from` on, cut at the positions in `at`
RECURSIVE Pieces(_, _, _)
Pieces(s, from, at) ==
    LET next == {i \in at : i >= from}
    IN  IF next = {} THEN <<SubSeq(s, from, Len(s))>>
        ELSE LET i == SetMin(next)
             IN  <<SubSeq(s, from, i - 1)>> \o Pieces(s, i + 1, at)

\* re.split(r"^diff ", rest, flags=re.MULTILINE): "diff " matches at the
\* start of the text and after a newline
SplitDiffs(s) ==
    Pieces(s, 1, {i \in 1..Len(s) : s[i] = DIFF /\ (i = 1 \/ s[i - 1] = NL)})

\* diff.index("\n@@"), 0 standing for the ValueError
EndOfHeaders(d) ==
    LET at == {i \in 1..(Len(d) - 1) : d[i] = NL /\ d[i + 1] = HUNK}
    IN  IF at = {} THEN 0 ELSE SetMin(at)

\* diff[end_of_headers + 1:]
DocumentOf(d) == SubSeq(d, EndOfHeaders(d) + 1, Len(d))

\* {entry.filename: entry for entry in files}: a dict keeps a key at the
\* place of its first insertion and the value of its last
RECURSIVE DictInsertAll(_, _)
DictInsertAll(dict, files) ==
    IF files = <<>> THEN dict
    ELSE LET entry == Head(files)
             at == {i \in 1..Len(dict) : dict[i].filename = entry.filename}
         IN  DictInsertAll(
                 IF at = {} THEN Append(dict, entry)
                 ELSE [dict EXCEPT ![SetMin(at)] = entry],
                 Tail(files))

\* is_filepath_excluded(filename, exclusion_regexes): the patterns are
\* given as the set of names they match
IsFilepathExcluded(filename, regexes) == filename \in regexes

\* ---- the patch text git writes

\* The body chunk of one file, after its "diff " marker: the rest of the
\* "diff --git" line, an extended header line and, when the file has a
\* textual diff, the hunk header line and the changed lines.
ChunkText(c) ==
    <<"-", "-", "g", NL, "i", NL>>
        \o (IF c.hunk THEN <<HUNK, SP, HUNK, NL>> \o c.content ELSE <<>>)

\* The kinds of body chunk. bytes is the UTF-8 size of the text from the
\* hunk marker on, counted by hand: "@@ @@\n" is 6 bytes.
ChunkKinds ==
    { [hunk |-> FALSE, content |-> <<>>, bytes |-> 0],
      [hunk |-> TRUE, content |-> <<"+", NL>>, bytes |-> 8],
      [hunk |-> TRUE, content |-> <<"+", DIFF, NL>>, bytes |-> 13],
      [hunk |-> TRUE, content |-> <<"+", "a", NL>>, bytes |-> 9],
      [hunk |-> TRUE, content |-> <<"+", "e'", NL>>, bytes |-> 10] }

RECURSIVE ChunksText(_)
ChunksText(files) ==
    IF files = <<>> THEN <<>>
    ELSE <<DIFF>> \o ChunkText(Head(files).chunk) \o ChunksText(Tail(files))

RECURSIVE FileRecords(_)
FileRecords(files) ==
    IF files = <<>> THEN <<>> ELSE <<Head(files).rec>> \o FileRecords(Tail(files))

\* s without its last element
Front(s) == SubSeq(s, 1, Len(s) - 1)

\* The files whose record, and the files whose chunk, a patch of the given
\* shape holds
RecordedFiles(files, shape) ==
    IF shape = "short header" THEN Front(files) ELSE files

ChunkedFiles(files, shape) ==
    IF shape = "short body" THEN Front(files) ELSE files

\* Commit.patch: the header, then a NUL, then the chunks; a patch of no
\* file has neither, and a patch without a chunk ends with its header.
PatchText(info, files, shape) ==
    IF files = <<>> THEN info
    ELSE HeaderText(info, FileRecords(RecordedFiles(files, shape)))
             \o (IF ChunkedFiles(files, shape) = <<>> THEN <<>>
                 ELSE <<NUL>> \o ChunksText(ChunkedFiles(files, shape)))

CommitRecords ==
    [status : {<<"M">>, <<"X">>}, score : {<<>>},
     name : {<<"f">>, <<"g">>}, newname : {<<>>}]

CommitFiles == [rec : CommitRecords, chunk : ChunkKinds]

InitCommit ==
    /\ cmInfo \in {<<>>, <<"c", NL, NL>>}
    /\ cmFiles \in RecordLists(CommitFiles, MaxFiles)
    /\ cmExcl \in {{}, {<<"g">>}}
    /\ cmShape \in {"paired", "short body", "short header"}
    /\ cmShape # "paired" => cmFiles # <<>>
    /\ patch = PatchText(cmInfo, cmFiles, cmShape)
    /\ cmLines = <<>>
    /\ cmDiffs = <<>>
    /\ cmSeen = <<>>
    /\ cmOut = <<>>
    /\ cmPc = "init"
    /\ cmMap = <<>>
    /\ LineIdle /\ HdrIdle /\ FsIdle /\ ScIdle /\ SdIdle /\ DfIdle /\ TkIdle

\* The body of the for loop on one (filename, filemode) pair and its chunk:
\* the unit it yields, or "none" when it continues
LoopBody(filename, filemode, diff, regexes) ==
    IF IsFilepathExcluded(filename, regexes) THEN [kind |-> "none"]
    ELSE IF EndOfHeaders(diff) = 0 THEN [kind |-> "none"]
    ELSE LET document == DocumentOf(diff)
         IN  IF TooLarge(Utf8Len(document)) THEN [kind |-> "none"]
             ELSE IF document # <<>>
                  THEN [kind |-> "unit", document |-> document,
                        filename |-> filename, filemode |-> filemode]
                  ELSE [kind |-> "none"]

\* One turn of the loop of get_files. The first turn splits the patch, and
\* ends the generator when the patch has no "\0diff ". Each turn asks the
\* header generator for its next pair, which may raise, then takes the next
\* chunk (zip stops at the shorter of the two), then runs the loop body.
\* Any exception becomes a PatchParseError.
GetFilesStep ==
    /\ cmPc \in {"init", "iter"}
    /\ LET tokens == SplitPatch(patch)
           first == cmPc = "init"
           lines == IF first THEN HeaderLines(tokens[1]) ELSE cmLines
           diffs == IF first THEN SplitDiffs(tokens[2]) ELSE cmDiffs
       IN  IF first /\ Len(tokens) = 1
           THEN /\ cmPc' = "done"
                /\ UNCHANGED <<cmLines, cmDiffs, cmSeen, cmOut>>
           ELSE IF lines = <<>>
           THEN /\ cmPc' = "done"
                /\ cmLines' = lines
                /\ cmDiffs' = diffs
                /\ UNCHANGED <<cmSeen, cmOut>>
           ELSE LET res == ParsePatchHeaderLine(<<COLON>> \o Head(lines))
                IN  IF res.kind # "ok"
                    THEN /\ cmPc' = "error"
                         /\ cmLines' = Tail(lines)
                         /\ cmDiffs' = diffs
                         /\ UNCHANGED <<cmSeen, cmOut>>
                    ELSE IF diffs = <<>>
                    THEN /\ cmPc' = "done"
                         /\ cmLines' = Tail(lines)
                         /\ cmDiffs' = diffs
                         /\ UNCHANGED <<cmSeen, cmOut>>
                    ELSE LET unit == LoopBody(res.name, res.mode, Head(diffs), cmExcl)
                         IN  /\ cmPc' = "iter"
                             /\ cmLines' = Tail(lines)
                             /\ cmDiffs' = Tail(diffs)
                             /\ cmSeen' = Append(cmSeen,
                                    [name |-> res.name, mode |-> res.mode,
                                     diff |-> Head(diffs),
                                     emitted |-> unit.kind = "unit"])
                             /\ cmOut' = IF unit.kind = "unit"
                                         THEN Append(cmOut, unit) ELSE cmOut
    /\ UNCHANGED <<patch, cmInfo, cmFiles, cmShape, cmExcl, cmMap, notCm>>

\* Commit.files: when _files is empty it is built from list(get_files()),
\* which runs the generator to its end; a PatchParseError leaves it as it was
FilesProperty ==
    /\ cmPc \in {"done", "error"}
    /\ cmMap' = IF cmMap = <<>> /\ cmPc = "done"
                THEN DictInsertAll(<<>>, cmOut) ELSE cmMap
    /\ UNCHANGED <<patch, cmInfo, cmFiles, cmShape, cmExcl, cmLines, cmDiffs, cmSeen,
                   cmOut, cmPc, notCm>>

NextCommit == GetFilesStep \/ FilesProperty

SpecCommit == InitCommit /\ [][NextCommit]_vars

\* C4: every chunk the loop body ran on, whose record is not excluded and
\* which has a hunk marker, gave a unit exactly when the UTF-8 size of the
\* text from the marker on is at most 90% of MAX_FILE_SIZE; and every unit
\* emitted holds the text of a chunk of at most that size.
C4_SizeThreshold ==
    /\ \A i \in 1..Len(cmSeen) :
          (cmFiles[i].chunk.hunk /\ cmSeen[i].name \notin cmExcl) =>
              (cmSeen[i].emitted
                  <=> cmFiles[i].chunk.bytes * 10 <= MAX_FILE_SIZE * 9)
    /\ \A k \in 1..Len(cmOut) :
          \E i \in 1..Len(cmSeen) :
              /\ cmSeen[i].emitted
              /\ cmFiles[i].chunk.hunk
              /\ cmOut[k].document
                    = <<HUNK, SP, HUNK, NL>> \o cmFiles[i].chunk.content
              /\ cmFiles[i].chunk.bytes * 10 <= MAX_FILE_SIZE * 9

\* A chunk of exactly 9 bytes was emitted and one of 10 bytes (9 characters)
\* was skipped, in the same commit.
C4_Witness ==
    /\ cmPc = "done"
    /\ \E i, j \in 1..Len(cmSeen) :
          /\ cmFiles[i].chunk.bytes = 9 /\ cmSeen[i].emitted
          /\ cmFiles[j].chunk.bytes = 10 /\ ~cmSeen[j].emitted
          /\ cmSeen[j].name \notin cmExcl

----------------------------------------------------------------------------
(* Files: the collection of units, keyed by filename *)

\* A mutant that keeps the first unit of a filename (dict.setdefault)
RECURSIVE KeepFirst(_, _)
KeepFirst(dict, files) ==
    IF files = <<>> THEN dict
    ELSE LET entry == Head(files)
             at == {i \in 1..Len(dict) : dict[i].filename = entry.filename}
         IN  KeepFirst(IF at = {} THEN Append(dict, entry) ELSE dict, Tail(files))

FilesFromListKeepFirst(files) == KeepFirst(<<>>, files)

\* A mutant that keeps the list as it is
FilesFromListAsIs(files) == files

\* Files.__init__
FilesFromList(files) == DictInsertAll(<<>>, files)

\* The parts of a path, as pathlib reads them: empty and "." parts vanish
RECURSIVE DropEmptyParts(_)
DropEmptyParts(parts) ==
    IF parts = <<>> THEN <<>>
    ELSE IF Head(parts) \in {<<>>, <<".">>} THEN DropEmptyParts(Tail(parts))
    ELSE <<Head(parts)>> \o DropEmptyParts(Tail(parts))

PathParts(name) == DropEmptyParts(SplitOn(name, "/"))

RECURSIVE JoinParts(_)
JoinParts(parts) ==
    IF parts = <<>> THEN <<".">>
    ELSE IF Len(parts) = 1 THEN Head(parts)
    ELSE Head(parts) \o <<"/">> \o JoinParts(Tail(parts))

IsUnder(name, root) ==
    LET p == PathParts(name)
        r == PathParts(root)
    IN  Len(r) <= Len(p) /\ SubSeq(p, 1, Len(r)) = r

\* str(Path(filename).relative_to(root_path)), for a filename under root
RelativeName(name, root) ==
    JoinParts(SubSeq(PathParts(name), Len(PathParts(root)) + 1,
                     Len(PathParts(name))))

SelectUnits(files, keep) == SelectSeq(files, LAMBDA f : f.filename \in keep)

\* File.relative_to: a File of the same document, filemode FILE
RelativeUnits(files, root) ==
    [i \in 1..Len(files) |->
        [filename |-> RelativeName(files[i].filename, root),
         document |-> files[i].document,
         filemode |-> "FILE"]]

FsNames ==
    { <<"r", "/", "a">>, <<"r", "/", "/", "a">>, <<"r", "/", "b">>, <<"a">> }

FsUnits == [filename : FsNames, document : {"d1", "d2"}, filemode : {"FILE"}]

InitFiles ==
    /\ fsList \in RecordLists(FsUnits, MaxUnits)
    /\ fsFiles = FilesFromList(fsList)
    /\ fsPc = "built"
    /\ LineIdle /\ HdrIdle /\ CmIdle /\ ScIdle /\ SdIdle /\ DfIdle /\ TkIdle

\* Files.apply_filter(filter_func), the filter given as the set of
\* filenames it accepts
ApplyFilter ==
    /\ fsPc # "off"
    /\ \E keep \in SUBSET {fsFiles[i].filename : i \in 1..Len(fsFiles)} :
          /\ fsList' = SelectUnits(fsFiles, keep)
          /\ fsFiles' = FilesFromList(fsList')
          /\ fsPc' = "filtered"
    /\ UNCHANGED notFs

\* Files.relative_to(root_path): Path.relative_to raises ValueError for a
\* file that is not under root_path, and then no collection is made
RelativeTo ==
    /\ fsPc # "off"
    /\ \E root \in {<<"r">>, <<"a">>} :
          IF \A i \in 1..Len(fsFiles) : IsUnder(fsFiles[i].filename, root)
          THEN /\ fsList' = RelativeUnits(fsFiles, root)
               /\ fsFiles' = FilesFromList(fsList')
               /\ fsPc' = "relative"
          ELSE /\ fsPc' = "raised"
               /\ UNCHANGED <<fsList, fsFiles>>
    /\ UNCHANGED notFs

NextFiles == ApplyFilter \/ RelativeTo

SpecFiles == InitFiles /\ [][NextFiles]_vars

\* C5: a collection holds no two units of the same filename, and holds for
\* each filename of the list it was built from the last unit of that list
\* with that filename, and nothing else; this holds of the collection first
\* built and of every one apply_filter and relative_to give.
C5_UniqueFilenames ==
    /\ \A i, j \in 1..Len(fsFiles) :
          fsFiles[i].filename = fsFiles[j].filename => i = j
    /\ \A i \in 1..Len(fsList) :
          (\A j \in (i + 1)..Len(fsList) : fsList[j].filename # fsList[i].filename)
              => \E k \in 1..Len(fsFiles) : fsFiles[k] = fsList[i]
    /\ \A k \in 1..Len(fsFiles) :
          \E i \in 1..Len(fsList) :
              /\ fsFiles[k] = fsList[i]
              /\ \A j \in (i + 1)..Len(fsList) :
                    fsList[j].filename # fsList[i].filename

\* relative_to has mapped two files of different names and documents to
\* one name, and the collection holds the later of the two only.
C5_Witness ==
    /\ fsPc = "relative"
    /\ Len(fsList) = 2
    /\ fsList[1].filename = fsList[2].filename
    /\ fsList[1].document # fsList[2].document
    /\ fsFiles = <<fsList[2]>>
    /\ fsList[1].filename = <<"a">>

----------------------------------------------------------------------------
(* Files.scan: the chunked concurrent scan *)

\* MULTI_DOCUMENT_LIMIT of pygitguardian.config (20 there), scaled down so
\* that a collection within the bounds makes three chunks.
MULTI_DOCUMENT_LIMIT == 2

\* A mutant that keeps the leading 255 characters of a long filename
ScanDictLeading(u) ==
    [filename |-> IF Len(u.filename) <= 256 THEN u.filename
                  ELSE SubSeq(u.filename, 1, 255),
     document |-> u.document,
     filemode |-> u.filemode]

\* File.scan_dict
ScanDict(u) ==
    [filename |-> IF Len(u.filename) <= 256 THEN u.filename
                  ELSE SubSeq(u.filename, Len(u.filename) - 254, Len(u.filename)),
     document |-> u.document,
     filemode |-> u.filemode]

\* Files.scannable_list
ScannableList(files) == [i \in 1..Len(files) |-> ScanDict(files[i])]

IntMin(a, b) == IF a <= b THEN a ELSE b

\* A mutant that drops a last chunk shorter than the limit
RECURSIVE ChunksFromFullOnly(_, _)
ChunksFromFullOnly(list, i) ==
    IF i + MULTI_DOCUMENT_LIMIT > Len(list) THEN <<>>
    ELSE <<SubSeq(list, i + 1, i + MULTI_DOCUMENT_LIMIT)>>
             \o ChunksFromFullOnly(list, i + MULTI_DOCUMENT_LIMIT)

\* for i in range(0, len(list), LIMIT): chunks.append(list[i : i + LIMIT])
RECURSIVE ChunksFrom(_, _)
ChunksFrom(list, i) ==
    IF i >= Len(list) THEN <<>>
    ELSE <<SubSeq(list, i + 1, IntMin(i + MULTI_DOCUMENT_LIMIT, Len(list)))>>
             \o ChunksFrom(list, i + MULTI_DOCUMENT_LIMIT)

Chunks(list) == ChunksFrom(list, 0)

\* ---- the inputs of a scan

\* A policy break the service reports: the secret it matched and the
\* detector that found it
PbKept == [match |-> "s1", detector |-> "aws"]
PbIgnoredMatch == [match |-> "s2", detector |-> "aws"]
PbIgnoredDetector == [match |-> "s3", detector |-> "generic"]

\* matches_ignore and ignored_detectors of the call
MatchesIgnore == {"s2"}
IgnoredDetectors == {"generic"}

\* What the service answers for one document: its policy breaks
UnitResults == { <<>>, <<PbIgnoredMatch>>, <<PbKept, PbIgnoredDetector>> }

ScanUnit(i) ==
    [filename |-> <<"f", i>>, document |-> <<"doc", i>>, filemode |-> "FILE"]

\* What a request can end in: a successful answer with one result per
\* document, an exception (transport failure), or a Detail the service
\* answers instead (service-level failure)
Outcomes(chunk) ==
    {[kind |-> "success", scan_results |-> rs, text |-> ""] :
        rs \in [1..Len(chunk) -> UnitResults]}
    \cup {[kind |-> "raise", scan_results |-> <<>>, text |-> t] :
            t \in {"timeout", "reset"}}
    \cup {[kind |-> "detail", scan_results |-> <<>>, text |-> "too large"]}

Pending == [kind |-> "pending", scan_results |-> <<>>, text |-> ""]

Ev(ev, chunk, arg) == [ev |-> ev, chunk |-> chunk, arg |-> arg]

\* ---- the loop body on one completed future

\* remove_ignored_from_result and remove_results_from_ignore_detectors
RemoveIgnoredFromResult(scanned, matches_ignore) ==
    SelectSeq(scanned, LAMBDA pb : pb.match \notin matches_ignore)

RemoveResultsFromIgnoreDetectors(scanned, ignored_detectors) ==
    SelectSeq(scanned, LAMBDA pb : pb.detector \notin ignored_detectors)

\* handle_scan_chunk_error(scan, chunk): it is given neither results nor
\* errors nor the cache; it reports the failure to the user and returns
HandleScanChunkError(reported, detail, chunk) ==
    Append(reported, [detail |-> detail, chunk |-> chunk])

\* [(file["filename"], file["filemode"]) for file in chunk]
ErrorFiles(chunk) ==
    [i \in 1..Len(chunk) |-> <<chunk[i].filename, chunk[i].filemode>>]

\* A mutant that forgets the Error of a request that raised
ErrorsAfterNone(errors, outcome, chunk) == errors

\* exception = future.exception(); if exception is not None: errors.append(..)
ErrorsAfter(errors, outcome, chunk) ==
    IF outcome.kind = "raise"
    THEN Append(errors, [files |-> ErrorFiles(chunk), description |-> outcome.text])
    ELSE errors

\* scan.success: a MultiScanResult succeeds, a Detail does not
ScanSuccess(outcome) == outcome.kind = "success"

\* A mutant that calls the progress callback for successful chunks only
CallbackAfterSuccessOnly(trace, c, chunk, outcome) ==
    IF outcome.kind = "success" THEN Append(trace, Ev("callback", c, chunk))
    ELSE trace

\* on_file_chunk_scanned(chunk)
CallbackAfter(trace, c, chunk, outcome) == Append(trace, Ev("callback", c, chunk))

RECURSIVE AddAll(_, _, _, _)
AddAll(trace, c, breaks, filename) ==
    IF breaks = <<>> THEN trace
    ELSE AddAll(Append(trace, Ev("add", c, <<Head(breaks), filename>>)),
                c, Tail(breaks), filename)

\* A mutant that registers and records the findings as the service sent
\* them, without applying the ignore rules
RECURSIVE ProcessResultsUnfiltered(_, _, _, _, _)
ProcessResultsUnfiltered(index, outcome, c, chunk, acc) ==
    IF index > Len(outcome.scan_results) THEN acc
    ELSE LET scanned == outcome.scan_results[index]
             next ==
                 IF scanned # <<>>
                 THEN [trace |-> AddAll(acc.trace, c, scanned, chunk[index].filename),
                       results |-> Append(acc.results,
                           [content |-> chunk[index].document,
                            scan |-> scanned,
                            filemode |-> chunk[index].filemode,
                            filename |-> chunk[index].filename])]
                 ELSE acc
         IN  ProcessResultsUnfiltered(index + 1, outcome, c, chunk, next)

\* for index, scanned in enumerate(scan.scan_results): ...
\* gives the results and the trace after the results from index on
RECURSIVE ProcessResults(_, _, _, _, _)
ProcessResults(index, outcome, c, chunk, acc) ==
    IF index > Len(outcome.scan_results) THEN acc
    ELSE LET scanned ==
                 RemoveResultsFromIgnoreDetectors(
                     RemoveIgnoredFromResult(outcome.scan_results[index],
                                             MatchesIgnore),
                     IgnoredDetectors)
             next ==
                 IF scanned # <<>>
                 THEN [trace |-> AddAll(acc.trace, c, scanned, chunk[index].filename),
                       results |-> Append(acc.results,
                           [content |-> chunk[index].document,
                            scan |-> scanned,
                            filemode |-> chunk[index].filemode,
                            filename |-> chunk[index].filename])]
                 ELSE acc
         IN  ProcessResults(index + 1, outcome, c, chunk, next)

\* ---- the specification

InitScan ==
    /\ \E n \in 0..MaxScanUnits : scUnits = [i \in 1..n |-> ScanUnit(i)]
    /\ scChunks = <<>>
    /\ scSubmitted = 0
    /\ scFutures = <<>>
    /\ scCollected = {}
    /\ scResults = <<>>
    /\ scErrors = <<>>
    /\ scTrace = <<>>
    /\ scReported = <<>>
    /\ scPc = "start"
    /\ LineIdle /\ HdrIdle /\ CmIdle /\ FsIdle /\ SdIdle /\ DfIdle /\ TkIdle

\* cache.purge(), then the payload list and its chunks
ScanPurge ==
    /\ scPc = "start"
    /\ scTrace' = Append(scTrace, Ev("purge", 0, <<>>))
    /\ scChunks' = Chunks(ScannableList(scUnits))
    /\ scFutures' = [c \in 1..Len(scChunks') |-> Pending]
    /\ scPc' = IF scChunks' = <<>> THEN "collect" ELSE "submit"
    /\ UNCHANGED <<scUnits, scSubmitted, scCollected, scResults, scErrors,
                   scReported, notSc>>

\* executor.submit(client.multi_content_scan, chunk, ...) for the next chunk
ScanSubmit ==
    /\ scPc = "submit"
    /\ scSubmitted' = scSubmitted + 1
    /\ scTrace' = Append(scTrace, Ev("submit", scSubmitted', <<>>))
    /\ scPc' = IF scSubmitted' = Len(scChunks) THEN "collect" ELSE "submit"
    /\ UNCHANGED <<scUnits, scChunks, scFutures, scCollected, scResults,
                   scErrors, scReported, notSc>>

\* A mutant in which the worker thread registers a finding in the cache
\* when its request ends
WorkerRunRegisters ==
    /\ \E c \in 1..scSubmitted :
          /\ scFutures[c].kind = "pending"
          /\ \E o \in Outcomes(scChunks[c]) :
                scFutures' = [scFutures EXCEPT ![c] = o]
          /\ scTrace' = Append(scTrace,
                            Ev("add", c, <<PbKept, scChunks[c][1].filename>>))
    /\ UNCHANGED <<scUnits, scChunks, scSubmitted, scCollected, scResults,
                   scErrors, scReported, scPc, notSc>>

\* A worker thread's request for a submitted chunk comes to its end. The
\* pool has min(CPU_COUNT, 4) workers; any order of completion is allowed
\* here, which holds every order a smaller pool can give.
WorkerRun ==
    /\ \E c \in 1..scSubmitted :
          /\ scFutures[c].kind = "pending"
          /\ \E o \in Outcomes(scChunks[c]) :
                scFutures' = [scFutures EXCEPT ![c] = o]
    /\ UNCHANGED <<scUnits, scChunks, scSubmitted, scCollected, scResults,
                   scErrors, scReported, scTrace, scPc, notSc>>

\* One turn of the loop over as_completed(future_to_scan), on a future
\* that is done and was not yet given out
ScanCollect ==
    /\ scPc = "collect"
    /\ \E c \in (1..Len(scChunks)) \ scCollected :
          /\ scFutures[c].kind # "pending"
          /\ LET chunk == scChunks[c]
                 outcome == scFutures[c]
                 called == CallbackAfter(scTrace, c, chunk, outcome)
             IN  /\ scErrors' = ErrorsAfter(scErrors, outcome, chunk)
                 /\ IF ~ScanSuccess(outcome)
                    THEN /\ scReported' =
                                HandleScanChunkError(scReported, outcome.text, chunk)
                         /\ scTrace' = called
                         /\ scResults' = scResults
                    ELSE LET done == ProcessResults(1, outcome, c, chunk,
                                        [trace |-> called, results |-> scResults])
                         IN  /\ scTrace' = done.trace
                             /\ scResults' = done.results
                             /\ scReported' = scReported
          /\ scCollected' = scCollected \cup {c}
    /\ UNCHANGED <<scUnits, scChunks, scSubmitted, scFutures, scPc, notSc>>

\* A mutant that saves the cache as soon as one chunk was handled
ScanSaveEarly ==
    /\ scPc = "collect"
    /\ scCollected # {} \/ scChunks = <<>>
    /\ scTrace' = Append(scTrace, Ev("save", 0, <<>>))
    /\ scPc' = "done"
    /\ UNCHANGED <<scUnits, scChunks, scSubmitted, scFutures, scCollected,
                   scResults, scErrors, scReported, notSc>>

\* The loop has ended and the executor is shut down: cache.save(), return
ScanSave ==
    /\ scPc = "collect"
    /\ scCollected = 1..Len(scChunks)
    /\ scTrace' = Append(scTrace, Ev("save", 0, <<>>))
    /\ scPc' = "done"
    /\ UNCHANGED <<scUnits, scChunks, scSubmitted, scFutures, scCollected,
                   scResults, scErrors, scReported, notSc>>

NextScan == ScanPurge \/ ScanSubmit \/ WorkerRun \/ ScanCollect \/ ScanSave

SpecScan == InitScan /\ [][NextScan]_vars

\* ---- what the claims about Files.scan speak of

\* The places in the collection of the units of the c-th chunk
PlacesOfChunk(c) ==
    {i \in 1..Len(scUnits) :
        (c - 1) * MULTI_DOCUMENT_LIMIT < i /\ i <= c * MULTI_DOCUMENT_LIMIT}

\* The payload the unit at place i is sent as (its name is short)
PayloadAt(i) ==
    [filename |-> scUnits[i].filename, document |-> scUnits[i].document,
     filemode |-> scUnits[i].filemode]

\* The (filename, filemode) pairs of the c-th chunk, in order
PairsOfChunk(c) ==
    [j \in 1..Cardinality(PlacesOfChunk(c)) |->
        <<scUnits[(c - 1) * MULTI_DOCUMENT_LIMIT + j].filename,
          scUnits[(c - 1) * MULTI_DOCUMENT_LIMIT + j].filemode>>]

EventsAt(ev) == {i \in 1..Len(scTrace) : scTrace[i].ev = ev}
CallbacksOf(c) == {i \in EventsAt("callback") : scTrace[i].chunk = c}
ChunksOfKind(kind) == {c \in 1..Len(scFutures) : scFutures[c].kind = kind}

\* C6: the payload list of n units is cut into ceil(n / LIMIT) chunks, each
\* but the last of LIMIT payloads, the last of 1 to LIMIT, which laid end to
\* end are the payload list; 2 * LIMIT + r units, 1 <= r <= LIMIT, give
\* chunks of sizes LIMIT, LIMIT, r and no unit gives no chunk.
C6_ChunkPartition ==
    scPc \in {"submit", "collect", "done"} =>
        LET n == Len(scUnits)
            k == Len(scChunks)
        IN  /\ k * MULTI_DOCUMENT_LIMIT >= n
            /\ (k - 1) * MULTI_DOCUMENT_LIMIT < n \/ (k = 0 /\ n = 0)
            /\ \A c \in 1..(k - 1) : Len(scChunks[c]) = MULTI_DOCUMENT_LIMIT
            /\ \A c \in 1..k : Len(scChunks[c]) \in 1..MULTI_DOCUMENT_LIMIT
            /\ \A c \in 1..k : \A j \in 1..Len(scChunks[c]) :
                  /\ (c - 1) * MULTI_DOCUMENT_LIMIT + j <= n
                  /\ scChunks[c][j] = PayloadAt((c - 1) * MULTI_DOCUMENT_LIMIT + j)
            /\ \A i \in 1..n : \E c \in 1..k : \E j \in 1..Len(scChunks[c]) :
                  i = (c - 1) * MULTI_DOCUMENT_LIMIT + j
            /\ \A r \in 1..MULTI_DOCUMENT_LIMIT :
                  n = 2 * MULTI_DOCUMENT_LIMIT + r =>
                      /\ k = 3
                      /\ Len(scChunks[1]) = MULTI_DOCUMENT_LIMIT
                      /\ Len(scChunks[2]) = MULTI_DOCUMENT_LIMIT
                      /\ Len(scChunks[3]) = r

\* A collection of 2 * LIMIT + 1 units was cut into three chunks, the last
\* of one payload.
C6_Witness ==
    /\ scPc = "collect"
    /\ Len(scUnits) = 2 * MULTI_DOCUMENT_LIMIT + 1
    /\ Len(scChunks) = 3
    /\ Len(scChunks[3]) = 1

\* C7: when every request either raised or succeeded, the call returns (no
\* state short of the return is stuck) and the outcome returned holds one
\* Error per chunk that raised and no other, with that chunk's pairs and
\* the exception's text, one result per unit of a successful chunk whose
\* findings surfaced, and no result of a unit of a chunk that raised.
C7_TransportFailures ==
    /\ (scPc \in {"start", "submit", "collect"}) => ENABLED NextScan
    /\ (scPc = "done" /\ ChunksOfKind("detail") = {}) =>
          /\ Len(scErrors) = Cardinality(ChunksOfKind("raise"))
          /\ \A c \in ChunksOfKind("raise") :
                Cardinality({e \in 1..Len(scErrors) :
                    /\ scErrors[e].files = PairsOfChunk(c)
                    /\ scErrors[e].description = scFutures[c].text}) = 1
          /\ \A c \in ChunksOfKind("success") :
                \A j \in 1..Len(scFutures[c].scan_results) :
                    LET i == (c - 1) * MULTI_DOCUMENT_LIMIT + j
                        found == {r \in 1..Len(scResults) :
                                    scResults[r].filename = scUnits[i].filename}
                    IN  IF \E b \in 1..Len(scFutures[c].scan_results[j]) :
                               scFutures[c].scan_results[j][b] = PbKept
                        THEN /\ Cardinality(found) = 1
                             /\ \A r \in found :
                                   /\ scResults[r].content = scUnits[i].document
                                   /\ scResults[r].scan = <<PbKept>>
                        ELSE found = {}
          /\ \A c \in ChunksOfKind("raise") : \A i \in PlacesOfChunk(c) :
                \A r \in 1..Len(scResults) :
                    scResults[r].filename # scUnits[i].filename

\* The second of three chunks raised, the first and the third succeeded
\* with findings, and the third was handled before the first.
C7_Witness ==
    /\ scPc = "done"
    /\ Len(scChunks) = 3
    /\ scFutures[1].kind = "success"
    /\ scFutures[2].kind = "raise"
    /\ scFutures[3].kind = "success"
    /\ Len(scErrors) = 1
    /\ Len(scResults) = 2
    /\ scResults[1].filename = scUnits[2 * MULTI_DOCUMENT_LIMIT + 1].filename
    /\ scResults[2].filename = scUnits[1].filename

\* C8 as stated: once the call has returned, every chunk whose request
\* ended in a Detail of the service has an Error in the outcome, with the
\* chunk's files and the description of the failure.
C8_ServiceFailureRecorded ==
    scPc = "done" =>
        \A c \in ChunksOfKind("detail") :
            \E e \in 1..Len(scErrors) :
                /\ scErrors[e].files = PairsOfChunk(c)
                /\ scErrors[e].description = scFutures[c].text

\* C9: the cache is purged first, before any chunk is submitted and before
\* any policy break is added; it is saved at most once, only as the last
\* call, and when the call has returned it was saved exactly once, after
\* every chunk was handled, whatever the outcomes.
C9_CacheOrder ==
    /\ scTrace # <<>> => scTrace[1].ev = "purge"
    /\ Cardinality(EventsAt("purge")) <= 1
    /\ Cardinality(EventsAt("save")) <= 1
    /\ \A i \in EventsAt("save") : i = Len(scTrace) /\ scPc = "done"
    /\ scPc = "done" =>
          /\ Cardinality(EventsAt("save")) = 1
          /\ Cardinality(EventsAt("purge")) = 1
          /\ \A c \in 1..Len(scChunks) :
                /\ c \in scCollected
                /\ \E i \in EventsAt("submit") : scTrace[i].chunk = c
                /\ CallbacksOf(c) # {}

\* The call has returned after a chunk that raised, a chunk the service
\* refused and a chunk whose policy breaks were added to the cache.
C9_Witness ==
    /\ scPc = "done"
    /\ ChunksOfKind("raise") # {}
    /\ ChunksOfKind("detail") # {}
    /\ EventsAt("add") # {}
    /\ scTrace[Len(scTrace)].ev = "save"

\* C10: the progress callback is called at most once per chunk, only for a
\* chunk whose request has ended, with that chunk's payload list, and once
\* the call has returned it was called exactly once for every chunk,
\* whatever its outcome.
C10_CallbackOncePerChunk ==
    /\ \A i \in EventsAt("callback") :
          LET c == scTrace[i].chunk
          IN  /\ c \in 1..scSubmitted
              /\ scFutures[c].kind # "pending"
              /\ scTrace[i].arg
                    = [j \in 1..Cardinality(PlacesOfChunk(c)) |->
                          PayloadAt((c - 1) * MULTI_DOCUMENT_LIMIT + j)]
    /\ \A c \in 1..Len(scChunks) :
          /\ Cardinality(CallbacksOf(c)) <= 1
          /\ c \in scCollected <=> CallbacksOf(c) # {}
    /\ scPc = "done" =>
          \A c \in 1..Len(scChunks) : Cardinality(CallbacksOf(c)) = 1

\* The call has returned after three chunks, one of each outcome, and the
\* callback was called three times.
C10_Witness ==
    /\ scPc = "done"
    /\ Len(scChunks) = 3
    /\ ChunksOfKind("raise") # {}
    /\ ChunksOfKind("detail") # {}
    /\ ChunksOfKind("success") # {}
    /\ Cardinality(EventsAt("callback")) = 3

\* The findings of the unit at place j of chunk c, as the service sent them
RawFindings(c, j) ==
    {scFutures[c].scan_results[j][b] :
        b \in 1..Len(scFutures[c].scan_results[j])}

\* C11: for every unit of a successful chunk that was handled, the unit is
\* in the results exactly when a finding is left after the ignored-match
\* and excluded-detector rules (of the findings sent, only PbKept is); each
\* finding left is registered in the cache once with the unit's payload
\* filename, and a finding the rules remove is neither registered nor held
\* by a result.
C11_FilteredFindings ==
    /\ \A c \in scCollected \cap ChunksOfKind("success") :
          \A j \in 1..Len(scChunks[c]) :
              LET name == scChunks[c][j].filename
                  found == {r \in 1..Len(scResults) : scResults[r].filename = name}
                  added == {i \in EventsAt("add") : scTrace[i].arg[2] = name}
              IN  IF PbKept \in RawFindings(c, j)
                  THEN /\ Cardinality(found) = 1
                       /\ \A r \in found : scResults[r].scan = <<PbKept>>
                       /\ Cardinality(added) = 1
                       /\ \A i \in added : scTrace[i].arg[1] = PbKept
                  ELSE found = {} /\ added = {}
    /\ \A i \in EventsAt("add") :
          /\ scTrace[i].arg[1].match \notin MatchesIgnore
          /\ scTrace[i].arg[1].detector \notin IgnoredDetectors
    /\ \A r \in 1..Len(scResults) :
          /\ scResults[r].scan # <<>>
          /\ \A b \in 1..Len(scResults[r].scan) :
                /\ scResults[r].scan[b].match \notin MatchesIgnore
                /\ scResults[r].scan[b].detector \notin IgnoredDetectors

\* A chunk was handled whose first unit had a finding of an ignored match
\* only and whose second had a kept finding beside one of an excluded
\* detector: the second alone is in the results and in the cache.
C11_Witness ==
    /\ scPc = "done"
    /\ \E c \in scCollected \cap ChunksOfKind("success") :
          /\ Len(scChunks[c]) = 2
          /\ scFutures[c].scan_results[1] = <<PbIgnoredMatch>>
          /\ scFutures[c].scan_results[2] = <<PbKept, PbIgnoredDetector>>
          /\ \E r \in 1..Len(scResults) :
                scResults[r].filename = scChunks[c][2].filename
          /\ \E i \in EventsAt("add") :
                scTrace[i].arg = <<PbKept, scChunks[c][2].filename>>

----------------------------------------------------------------------------
(* Specification of one call of File.scan_dict *)

\* Filename lengths: short ones and the ones around the 256 limit
NameLens == {1, 2} \cup ((MaxNameLen - 5)..MaxNameLen)

\* A filename of n characters whose first and last are told apart from the
\* rest
NameOf(h, t, n) ==
    [i \in 1..n |-> IF i = n THEN t ELSE IF i = 1 THEN h ELSE "m"]

InitScanDict ==
    /\ \E n \in NameLens, h \in {"a", "b"}, t \in {"y", "z"},
          d \in {<<>>, <<"doc">>}, fm \in {"FILE", "NEW", "MODIFY"} :
          sdUnit = [filename |-> NameOf(h, t, n), document |-> d, filemode |-> fm]
    /\ sdOut = <<>>
    /\ sdPc = "init"
    /\ LineIdle /\ HdrIdle /\ CmIdle /\ FsIdle /\ ScIdle /\ DfIdle /\ TkIdle

CallScanDict ==
    /\ sdPc = "init"
    /\ sdOut' = ScanDict(sdUnit)
    /\ sdPc' = "done"
    /\ UNCHANGED <<sdUnit, notSd>>

NextScanDict == CallScanDict

SpecScanDict == InitScanDict /\ [][NextScanDict]_vars

\* C12: the payload filename has at most 256 characters; it is the unit's
\* filename when that has at most 256 characters and otherwise its last 255
\* characters, in order; document and filemode are the unit's.
C12_PayloadFilename ==
    sdPc = "done" =>
        LET name == sdUnit.filename
            n == Len(name)
        IN  /\ Len(sdOut.filename) <= 256
            /\ n <= 256 => sdOut.filename = name
            /\ n > 256 =>
                  /\ Len(sdOut.filename) = 255
                  /\ \A i \in 1..255 : sdOut.filename[i] = name[n - 255 + i]
            /\ sdOut.document = sdUnit.document
            /\ sdOut.filemode = sdUnit.filemode

\* A filename of more than 256 characters was cut: the payload filename
\* ends as the filename does and has lost its first character.
C12_Witness ==
    /\ sdPc = "done"
    /\ Len(sdUnit.filename) > 256
    /\ sdUnit.filename[1] = "a"
    /\ sdOut.filename[1] = "m"
    /\ sdOut.filename[Len(sdOut.filename)] = sdUnit.filename[Len(sdUnit.filename)]

----------------------------------------------------------------------------
(* Commit.get_files: parse failures and the pairing of records and chunks *)

\* C13: when a header record fails to parse, get_files has yielded no file
\* of the commit, the files whose records come before the failing one
\* included, and Commit.files holds no mapping.
C13_NoPartialYield ==
    cmPc = "error" => (cmOut = <<>> /\ cmMap = <<>>)

\* C14: when the patch holds a different number of file records than of
\* body chunks, get_files does not end normally: it raises the parse
\* failure error.
C14_MismatchFails ==
    Len(RecordedFiles(cmFiles, cmShape)) # Len(ChunkedFiles(cmFiles, cmShape))
        => cmPc # "done"

----------------------------------------------------------------------------
(* The pre-push IaC diff scan (cmd/iac/scan/prepush.py) and the JSON diff  *)
(* output (iac/output/iac_json_output_handler.py)                          *)

\* Python's None, told apart from every commit text
None == <<"None">>

\* EMPTY_SHA of ggshield.core.utils: the all-zero sha git gives for a
\* ref that does not exist, shortened from 40 zeros to 4
EMPTY_SHA == <<"0", "0", "0", "0">>

\* sub in s, for two texts
Contains(s, sub) ==
    \E i \in 0..(Len(s) - Len(sub)) : SubSeq(s, i + 1, i + Len(sub)) = sub

\* A mutant that takes no baseline for the empty sha only
PreviousRefEmptyOnly(remote_commit) ==
    IF remote_commit = EMPTY_SHA THEN None ELSE remote_commit

\* scan_pre_push_cmd: the remote commit the diff scan is given
PreviousRef(remote_commit) ==
    IF Contains(remote_commit, <<"~", "1">>) \/ remote_commit = EMPTY_SHA
    THEN None
    ELSE remote_commit

\* The remote commits collect_commits_refs may return: the empty sha, the
\* parent of a local commit, and commits of the remote
RemoteCommits ==
    { EMPTY_SHA, <<"a", "b", "~", "1">>, <<"a", "~", "1", "0">>,
      <<"a", "b">>, <<"a", "~", "2">> }

\* The identities of the findings
Findings == {"A", "B", "C"}

\* The elements of a set as a list
RECURSIVE ListOf(_)
ListOf(S) ==
    IF S = {} THEN <<>>
    ELSE LET x == CHOOSE y \in S : TRUE IN <<x>> \o ListOf(S \ {x})

\* The diff reconciler: the findings of the current scan and of the
\* baseline scan in three lists
Reconcile(baseline, current) ==
    [kind |-> "result",
     new |-> ListOf(current \ baseline),
     unchanged |-> ListOf(current \cap baseline),
     deleted |-> ListOf(baseline \ current)]

\* iac_scan_diff: the baseline is the scan at previous_ref, and is empty
\* when previous_ref is None; the collection has no result when the scan
\* could not be made
IacScanDiff(previous_ref, at_ref, current, scanned) ==
    IF ~scanned THEN [kind |-> "none"]
    ELSE Reconcile(IF previous_ref = None THEN {} ELSE at_ref, current)

\* A mutant that lists the persisting findings with the added ones too
CreateDiffScanDictOverlap(result) ==
    IF result.kind = "none"
    THEN [added_vulns |-> <<>>, persisting_vulns |-> <<>>, removed_vulns |-> <<>>]
    ELSE [added_vulns |-> result.new \o result.unchanged,
          persisting_vulns |-> result.unchanged,
          removed_vulns |-> result.deleted]

\* IaCJSONOutputHandler.create_diff_scan_dict
CreateDiffScanDict(result) ==
    IF result.kind = "none"
    THEN [added_vulns |-> <<>>, persisting_vulns |-> <<>>, removed_vulns |-> <<>>]
    ELSE [added_vulns |-> result.new,
          persisting_vulns |-> result.unchanged,
          removed_vulns |-> result.deleted]

InitIacDiff ==
    /\ dfRemote \in RemoteCommits
    /\ dfBase \in SUBSET Findings
    /\ dfRemote = EMPTY_SHA => dfBase = {}
    /\ dfCurrent \in SUBSET Findings
    /\ dfPrevRef = None
    /\ dfResult = [kind |-> "pending"]
    /\ dfOut = <<>>
    /\ dfPc = "init"
    /\ LineIdle /\ HdrIdle /\ CmIdle /\ FsIdle /\ ScIdle /\ SdIdle /\ TkIdle

\* scan_pre_push_cmd, with the JSON output handler: the choice of the
\* baseline, the diff scan, and the dict the result is displayed from
ScanPrePushCmd ==
    /\ dfPc = "init"
    /\ \E scanned \in BOOLEAN :
          LET remote_commit == PreviousRef(dfRemote)
              result == IacScanDiff(remote_commit, dfBase, dfCurrent, scanned)
          IN  /\ dfPrevRef' = remote_commit
              /\ dfResult' = result
              /\ dfOut' = CreateDiffScanDict(result)
    /\ dfPc' = "done"
    /\ UNCHANGED <<dfRemote, dfBase, dfCurrent, notDf>>

NextIacDiff == ScanPrePushCmd

SpecIacDiff == InitIacDiff /\ [][NextIacDiff]_vars

\* The elements of a list, and how often x is among them
Elements(list) == {list[i] : i \in 1..Len(list)}
Occurrences(x, list) == Cardinality({i \in 1..Len(list) : list[i] = x})

\* The baseline the diff scan reconciled against
UsedBaseline == IF dfPrevRef = None THEN {} ELSE dfBase

\* C15: the result of a diff scan holds three pairwise disjoint sets whose
\* union is the union of the baseline and the current findings: new is
\* current minus baseline, unchanged is what both hold, deleted is baseline
\* minus current. The output lists each of these findings once, in
\* added_vulns, persisting_vulns or removed_vulns according to its set, and
\* lists nothing when the scan has no result.
C15_DiffPartition ==
    dfPc = "done" =>
        IF dfResult.kind = "none"
        THEN /\ dfOut.added_vulns = <<>>
             /\ dfOut.persisting_vulns = <<>>
             /\ dfOut.removed_vulns = <<>>
        ELSE LET new == Elements(dfResult.new)
                 unchanged == Elements(dfResult.unchanged)
                 deleted == Elements(dfResult.deleted)
             IN  /\ new = dfCurrent \ UsedBaseline
                 /\ unchanged = dfCurrent \cap UsedBaseline
                 /\ deleted = UsedBaseline \ dfCurrent
                 /\ new \cap unchanged = {}
                 /\ new \cap deleted = {}
                 /\ unchanged \cap deleted = {}
                 /\ new \cup unchanged \cup deleted = dfCurrent \cup UsedBaseline
                 /\ Elements(dfOut.added_vulns) = new
                 /\ Elements(dfOut.persisting_vulns) = unchanged
                 /\ Elements(dfOut.removed_vulns) = deleted
                 /\ \A f \in Findings :
                       Occurrences(f, dfOut.added_vulns)
                         + Occurrences(f, dfOut.persisting_vulns)
                         + Occurrences(f, dfOut.removed_vulns)
                       = IF f \in dfCurrent \cup UsedBaseline THEN 1 ELSE 0

\* The baseline held A and B and the current scan B and C: C is listed as
\* added, B as persisting and A as removed.
C15_Witness ==
    /\ dfPc = "done"
    /\ dfResult.kind = "result"
    /\ UsedBaseline = {"A", "B"}
    /\ dfCurrent = {"B", "C"}
    /\ dfOut.added_vulns = <<"C">>
    /\ dfOut.persisting_vulns = <<"B">>
    /\ dfOut.removed_vulns = <<"A">>

----------------------------------------------------------------------------
(* The cached HMSL token (verticals/hmsl/utils.py)                         *)

\* The file TOKEN_PATH does not exist
Absent == <<"absent">>

\* A token is the text of a JWT, here the pair of its aud and exp claims;
\* a text that is no JWT and the empty text are tokens too.
config_hmsl_audience == "hmsl"
Now == 100
CachedTokens ==
    { <<"hmsl", 1000>>,     \* valid
      <<"hmsl", 161>>,      \* expires just after the leeway: valid
      <<"hmsl", 160>>,      \* expires at the end of the leeway: not valid
      <<"other", 1000>>,    \* of another audience
      <<"junk">>,           \* no JWT
      <<>> }                \* the empty text
NewToken == <<"hmsl", 2000>>

\* The exception classes met, and whether an exception of class exc is
\* caught by `except class`
Parents(exc) ==
    CASE exc = "FileNotFoundError" -> {"FileNotFoundError", "OSError", "Exception"}
      [] exc = "PermissionError" -> {"PermissionError", "OSError", "Exception"}
      [] exc = "OSError" -> {"OSError", "Exception"}
      [] exc = "UnicodeDecodeError" -> {"UnicodeDecodeError", "ValueError", "Exception"}
      [] exc = "ValueError" -> {"ValueError", "Exception"}
      [] OTHER -> {exc, "Exception"}
IsA(exc, class) == class \in Parents(exc)

\* What may go wrong besides the file not being there
ReadFaults == {"PermissionError", "OSError", "UnicodeDecodeError"}
WriteFaults == {"PermissionError", "OSError", "FileNotFoundError"}
UnlinkFaults == {"PermissionError", "OSError", "ValueError"}

Return(v) == [kind |-> "return", value |-> v]
Raise(exc) == [kind |-> "raise", exc |-> exc]

\* TOKEN_PATH.read_text()
ReadText(disk, fault) ==
    IF fault # "none" THEN Raise(fault)
    ELSE IF disk = Absent THEN Raise("FileNotFoundError")
    ELSE Return(disk)

\* TOKEN_PATH.write_text(token): the outcomes and the file they leave; a
\* failed write leaves the file as it was or cut to nothing
WriteText(disk, token, fault) ==
    IF fault = "none" THEN {[out |-> Return(None), disk |-> token]}
    ELSE {[out |-> Raise(fault), disk |-> d] : d \in {disk, <<>>}}

\* TOKEN_PATH.unlink(missing_ok=True)
Unlink(disk, fault) ==
    IF fault = "none" THEN [out |-> Return(None), disk |-> Absent]
    ELSE [out |-> Raise(fault), disk |-> disk]

\* A mutant that lets every read failure but FileNotFoundError through
LoadTokenFromDiskNotFoundOnly(disk, fault) ==
    LET read == ReadText(disk, fault)
    IN  IF read.kind = "return" THEN read
        ELSE IF IsA(read.exc, "FileNotFoundError") THEN Return(None)
        ELSE read

\* load_token_from_disk
LoadTokenFromDisk(disk, fault) ==
    LET read == ReadText(disk, fault)
    IN  IF read.kind = "return" THEN read
        ELSE IF IsA(read.exc, "FileNotFoundError") THEN Return(None)
        ELSE IF IsA(read.exc, "Exception") THEN Return(None)
        ELSE read

\* save_token, given what write_text did
SaveToken(written) ==
    IF written.kind = "return" THEN Return(None)
    ELSE IF IsA(written.exc, "Exception") THEN Return(None)
    ELSE written

\* remove_token_from_disk, given what unlink did
RemoveTokenFromDisk(unlinked) ==
    IF unlinked.kind = "return" THEN Return(None)
    ELSE IF IsA(unlinked.exc, "OSError") THEN Return(None)
    ELSE IF IsA(unlinked.exc, "Exception") THEN Return(None)
    ELSE unlinked

\* is_token_valid: jwt.decode fails on a text that is no JWT
IsTokenValid(token, audience) ==
    IF token = None \/ token = <<>> THEN FALSE
    ELSE IF Len(token) # 2 THEN FALSE
    ELSE IF token[1] # audience THEN FALSE
    ELSE token[2] > Now + 60

\* What create_client does, and what create_jwt answers
ClientOutcomes ==
    {"ok", "MissingTokenError", "AuthExpiredError", "UnknownInstanceError",
     "Exception"}
Responses == {[kind |-> "jwt", token |-> NewToken], [kind |-> "detail"]}

\* get_token: the outcomes, each with the file it leaves and whether a new
\* token was requested
GetToken(disk, readFault, client, response, writeFault) ==
    LET loaded == LoadTokenFromDisk(disk, readFault)
        stay(out, requested) ==
            {[out |-> out, disk |-> disk, requested |-> requested]}
    IN  IF loaded.kind = "raise" THEN stay(loaded, FALSE)
        ELSE IF IsTokenValid(loaded.value, config_hmsl_audience)
        THEN stay(Return(loaded.value), FALSE)
        ELSE IF client # "ok" THEN stay(Return(None), FALSE)
        ELSE IF response.kind = "detail" THEN stay(Return(None), TRUE)
        ELSE {[out |-> IF SaveToken(w.out).kind = "raise"
                       THEN SaveToken(w.out) ELSE Return(response.token),
               disk |-> w.disk, requested |-> TRUE] :
                 w \in WriteText(disk, response.token, writeFault)}

Call(op, before, readFault, client, response, writeFault, out, requested) ==
    [op |-> op, before |-> before, readFault |-> readFault, client |-> client,
     response |-> response, writeFault |-> writeFault, out |-> out,
     requested |-> requested]

NoCall ==
    Call("none", Absent, "none", "ok", [kind |-> "detail"], "none",
         Return(None), FALSE)

InitToken ==
    /\ tkDisk \in {Absent} \cup CachedTokens
    /\ tkLast = NoCall
    /\ LineIdle /\ HdrIdle /\ CmIdle /\ FsIdle /\ ScIdle /\ SdIdle /\ DfIdle

CallLoadTokenFromDisk ==
    /\ \E fault \in {"none"} \cup ReadFaults :
          tkLast' = Call("load", tkDisk, fault, "ok", [kind |-> "detail"],
                         "none", LoadTokenFromDisk(tkDisk, fault), FALSE)
    /\ UNCHANGED <<tkDisk, notTk>>

CallSaveToken ==
    /\ \E fault \in {"none"} \cup WriteFaults :
          \E w \in WriteText(tkDisk, NewToken, fault) :
              /\ tkDisk' = w.disk
              /\ tkLast' = Call("save", tkDisk, "none", "ok", [kind |-> "detail"],
                                fault, SaveToken(w.out), FALSE)
    /\ UNCHANGED notTk

CallRemoveTokenFromDisk ==
    /\ \E fault \in {"none"} \cup UnlinkFaults :
          LET u == Unlink(tkDisk, fault)
          IN  /\ tkDisk' = u.disk
              /\ tkLast' = Call("remove", tkDisk, "none", "ok", [kind |-> "detail"],
                                fault, RemoveTokenFromDisk(u.out), FALSE)
    /\ UNCHANGED notTk

CallGetToken ==
    /\ \E readFault \in {"none"} \cup ReadFaults, client \in ClientOutcomes,
          response \in Responses, writeFault \in {"none"} \cup WriteFaults :
          \E g \in GetToken(tkDisk, readFault, client, response, writeFault) :
              /\ tkDisk' = g.disk
              /\ tkLast' = Call("get", tkDisk, readFault, client, response,
                                writeFault, g.out, g.requested)
    /\ UNCHANGED notTk

NextToken ==
    \/ CallLoadTokenFromDisk
    \/ CallSaveToken
    \/ CallRemoveTokenFromDisk
    \/ CallGetToken

SpecToken == InitToken /\ [][NextToken]_vars

\* C17: no call lets a failure to read, write or delete the token file out.
\* load_token_from_disk returns None whenever the read failed; save_token
\* and remove_token_from_disk return whenever the write or the delete
\* failed; get_token, when the read failed, does what it does without a
\* cached token: it returns None when no client can be made, requests a
\* new token otherwise, and returns the token it obtained, also when
\* saving it failed.
C17_CacheFailuresContained ==
    /\ tkLast.out.kind = "return"
    /\ (tkLast.op = "load" /\ (tkLast.readFault # "none" \/ tkLast.before = Absent))
          => tkLast.out.value = None
    /\ tkLast.op = "get" /\ (tkLast.readFault # "none" \/ tkLast.before = Absent)
          => IF tkLast.client # "ok"
             THEN ~tkLast.requested /\ tkLast.out.value = None
             ELSE /\ tkLast.requested
                  /\ tkLast.out.value =
                        IF tkLast.response.kind = "jwt"
                        THEN tkLast.response.token ELSE None
    /\ (tkLast.op = "get" /\ tkLast.requested /\ tkLast.response.kind = "jwt")
          => tkLast.out.value = tkLast.response.token

\* get_token could not read a file holding a valid token, obtained a new
\* token, could not save it, and returned the new token.
C17_Witness ==
    /\ tkLast.op = "get"
    /\ tkLast.before = <<"hmsl", 1000>>
    /\ tkLast.readFault = "PermissionError"
    /\ tkLast.requested
    /\ tkLast.writeFault = "OSError"
    /\ tkLast.out = Return(NewToken)
    /\ tkDisk # NewToken

----------------------------------------------------------------------------
(* Files.scan: the order of the results and the threads that change the    *)
(* cache and the accumulators                                              *)

\* The place in the collection of the unit a result is about
PlaceOfResult(r) == scResults[r].filename[2]

\* C18: whatever the order in which the requests end, the results are in
\* the order of the chunks and, within a chunk, in the order of its units.
C18_ResultsInChunkOrder ==
    \A r1, r2 \in 1..Len(scResults) :
        r1 < r2 => PlaceOfResult(r1) < PlaceOfResult(r2)

\* The requests that were submitted and have not ended
Running == {c \in 1..scSubmitted : scFutures[c].kind = "pending"}

\* The events of the kind ev that a step adds to the trace
Added(ev, before, after) ==
    {i \in (Len(before) + 1)..Len(after) : after[i].ev = ev}

\* C19: the cache, results and errors are changed by one thread at a time.
\* A step in which a request ends on its worker thread changes none of
\* them, so every add_found_policy_break and every append is a step of the
\* loop of the calling thread, one after the other; purge is called when
\* no request was submitted yet and save when no request is running.
C19_MutationsSerialized ==
    [][ /\ (\E c \in DOMAIN scFutures \cap DOMAIN scFutures' :
               scFutures[c].kind = "pending" /\ scFutures'[c].kind # "pending")
           => UNCHANGED <<scTrace, scResults, scErrors>>
        /\ Added("purge", scTrace, scTrace') # {} => scSubmitted = 0
        /\ Added("save", scTrace, scTrace') # {} => Running = {}
        /\ (Added("add", scTrace, scTrace') # {} \/ scResults' # scResults
               \/ scErrors' # scErrors)
           => scCollected' # scCollected /\ scFutures' = scFutures
      ]_vars

\* A finding of one chunk was registered and its result appended while
\* the request of another chunk was still running.
C19_Witness ==
    /\ EventsAt("add") # {}
    /\ scResults # <<>>
    /\ Running # {}

----------------------------------------------------------------------------
(* Commit.get_files: the pairing of records and chunks *)

\* Whether the unit is the one of the i-th file of the patch: the name and
\* the mode of the i-th record, and the text of the i-th chunk from its
\* hunk marker on
UnitOfFile(unit, i) ==
    /\ i <= Len(RecordedFiles(cmFiles, cmShape))
    /\ i <= Len(ChunkedFiles(cmFiles, cmShape))
    /\ unit.filename = cmFiles[i].rec.name
    /\ cmFiles[i].rec.status = <<"M">> /\ unit.filemode = "MODIFY"
    /\ cmFiles[i].chunk.hunk
    /\ unit.document = <<HUNK, SP, HUNK, NL>> \o cmFiles[i].chunk.content

\* C20: records and chunks are paired by position, skipped records
\* included: every unit emitted has the name and the mode of the i-th
\* record and the text from the hunk marker of the i-th chunk, for some i
\* whose name is not excluded and whose chunk has a hunk marker; units come
\* in the order of their files.
C20_PairedByPosition ==
    /\ \A k \in 1..Len(cmOut) :
          \E i \in 1..Len(cmFiles) :
              /\ UnitOfFile(cmOut[k], i)
              /\ cmFiles[i].rec.name \notin cmExcl
    /\ Len(cmOut) <= Len(cmFiles)

====
